---- MODULE Spec2Model ----
(***************************************************************************)
(* Model of the SSE fan-out engine of go-sse-ai-chat: the Broker           *)
(* (internal/sse/broker.go), its MessageStore (internal/sse/               *)
(* message_store.go) and the stream handler that names the connections     *)
(* (internal/handlers/message_handler.go).  internal/sse/client.go is not  *)
(* part of the sources at hand; Client is modelled from its description.   *)
(*                                                                         *)
(* Strings that the code splits or compares by prefix (client ids, chat    *)
(* ids) are sequences of one-character strings.  Time is an integer clock; *)
(* one unit stands for 5 minutes.                                              *)
(***************************************************************************)
EXTENDS Integers, Sequences, FiniteSets, TLC

\* ------------------------------------------------------------------------
\* Bounds of the model
\* ------------------------------------------------------------------------
MaxClients == 2
MaxMessagesPerChat == 2
BroadcastCap == 2
QueueCap == 1
MaxMsgs == 3
MaxTime == 2
\* NewBroker sets 3 retries and 50 messages per chat; the model runs the same
\* code with smaller values.
MaxRetryAttempts == 1

\* ------------------------------------------------------------------------
\* Program constants (durations in units of 5 minutes)
\* ------------------------------------------------------------------------
MaxMessageAge == 1
ReplayWindow == 1
CleanupInterval == 1

\* ------------------------------------------------------------------------
\* Strings
\* ------------------------------------------------------------------------
EmptyStr == << >>
Sep == "_"

Min(S) == CHOOSE x \in S : \A y \in S : x <= y

HasPrefix(s, p) ==
    /\ Len(p) <= Len(s)
    /\ SubSeq(s, 1, Len(p)) = p

\* strings.Split(clientID, "_")[0]: everything before the first separator,
\* the whole string when there is none.
getChatIDFromClientID(clientID) ==
    LET seps == {i \in 1..Len(clientID) : clientID[i] = Sep}
    IN IF seps = {} THEN clientID ELSE SubSeq(clientID, 1, Min(seps) - 1)

\* ------------------------------------------------------------------------
\* Stream requests.  Each connection instance is created by one request
\* GET /chats/:id/stream?client_id=...; uuid is the value uuid.New() yields.
\* ------------------------------------------------------------------------
\* c1..c4 are requests for the chats a and b, whose ids, like the ids the
\* chat service gives out, do not contain the separator; c5 is a connection
\* named the same way for a chat whose id contains it.
HttpConns == {"c1", "c2", "c3", "c4"}
Conns == HttpConns \cup {"c5"}
ChatA == <<"a">>
ChatB == <<"b">>
ChatAB == <<"a", "_", "b">>
Chats == {ChatA, ChatB}
Topics == Chats \cup {ChatAB}

Request(c) ==
    CASE c = "c1" -> [chatID |-> ChatA, client_id |-> EmptyStr, uuid |-> <<"1">>]
      [] c = "c2" -> [chatID |-> ChatA, client_id |-> <<"a", "_", "1">>, uuid |-> <<"2">>]
      [] c = "c3" -> [chatID |-> ChatA, client_id |-> <<"b", "_", "9">>, uuid |-> <<"3">>]
      [] c = "c4" -> [chatID |-> ChatB, client_id |-> EmptyStr, uuid |-> <<"1">>]
      [] c = "c5" -> [chatID |-> ChatAB, client_id |-> EmptyStr, uuid |-> <<"5">>]

\* HandleStream: the client id is the client_id query parameter when it
\* starts with chatID + "_", a fresh chatID_uuid otherwise.
HandleStreamClientID(req) ==
    IF req.client_id = EmptyStr \/ ~HasPrefix(req.client_id, req.chatID \o <<Sep>>)
    THEN req.chatID \o <<Sep>> \o req.uuid
    ELSE req.client_id

ConnID(c) == HandleStreamClientID(Request(c))
ConnTopic(c) == Request(c).chatID
ClientIDs == {ConnID(c) : c \in Conns}

\* ------------------------------------------------------------------------
\* State
\* ------------------------------------------------------------------------
VARIABLES
    now,          \* clock (time.Now)
    Clients,      \* Broker.Clients: client id -> connection instance
    Broadcast,    \* Broker.Broadcast channel contents
    retrying,     \* messages held by running retryMessage goroutines
    loopRunning,  \* Broker.Start has not returned
    phase,        \* per instance: "new" (no request yet), "active" (handed to
                  \* the loop), "done" (its request context is done)
    closed,       \* Client closed flag
    unregReq,     \* instances with a send on Broker.Unregister pending
    qlen,         \* number of payloads in the instance's outbound queue
    rcvd,         \* everything handed to the instance, in order
    messages,     \* MessageStore.messages: chat id -> list of stored messages
    lastCleanup,  \* MessageStore.lastCleanup
    cleanups,     \* number of spawned cleanup goroutines that have not run
    nextN,        \* serial of the next publish
    published,    \* history: the events with a chat and an id, in the order
                  \* the loop first took them from Broadcast
    stored,       \* history: every StoreMessage call, per chat, in order
    swept,        \* history: chats from which a sweep removed entries
    rejected,     \* history: instances turned away at capacity
    lastErr,      \* what the last producer call returned: "nil" or "error"
    lastStats     \* the body of the last GET /sse/stats response

vars == <<now, Clients, Broadcast, retrying, loopRunning, phase, closed,
          unregReq, qlen, rcvd, messages, lastCleanup, cleanups, nextN,
          published, stored, swept, rejected, lastErr, lastStats>>

brokerVars == <<Clients, Broadcast, retrying, loopRunning>>
clientVars == <<phase, closed, unregReq, qlen, rcvd>>
storeVars == <<messages, lastCleanup, cleanups>>
ghostVars == <<nextN, published, stored, swept, rejected, lastErr, lastStats>>

Init ==
    /\ now = 0
    /\ Clients = [id \in {} |-> "c1"]
    /\ Broadcast = << >>
    /\ retrying = {}
    /\ loopRunning = TRUE
    /\ phase = [c \in Conns |-> "new"]
    /\ closed = [c \in Conns |-> FALSE]
    /\ unregReq = {}
    /\ qlen = [c \in Conns |-> 0]
    /\ rcvd = [c \in Conns |-> << >>]
    /\ messages = [ch \in {} |-> << >>]
    /\ lastCleanup = 0
    /\ cleanups = 0
    /\ nextN = 1
    /\ published = << >>
    /\ stored = [t \in Topics |-> << >>]
    /\ swept = {}
    /\ rejected = {}
    /\ lastErr = "nil"
    /\ lastStats = [total_clients |-> 0]

\* ------------------------------------------------------------------------
\* Go maps
\* ------------------------------------------------------------------------
MapPut(f, k, v) == [x \in (DOMAIN f) \cup {k} |-> IF x = k THEN v ELSE f[x]]
MapDel(f, k) == [x \in (DOMAIN f) \ {k} |-> f[x]]
Range(f) == {f[x] : x \in DOMAIN f}

\* ------------------------------------------------------------------------
\* MessageStore
\* ------------------------------------------------------------------------
StoredMessage(messageID, event, data, t) ==
    [ID |-> messageID, Event |-> event, Data |-> data, Timestamp |-> t]

\* StoreMessage trimming at the wrong end of the list.
StoreMessage_TrimNewest(msgs, chatID, messageID, event, data, t) ==
    LET cur == IF chatID \in DOMAIN msgs THEN msgs[chatID] ELSE << >>
        app == Append(cur, StoredMessage(messageID, event, data, t))
        trimmed == IF Len(app) > MaxMessagesPerChat
                   THEN SubSeq(app, 1, Len(app) - 1) ELSE app
    IN [x \in (DOMAIN msgs) \cup {chatID} |-> IF x = chatID THEN trimmed ELSE msgs[x]]

\* StoreMessage, the list it leaves for chatID: append, then drop the
\* oldest entry when the list is longer than maxMessagesPerChat.
StoreMessage(msgs, chatID, messageID, event, data, t) ==
    LET cur == IF chatID \in DOMAIN msgs THEN msgs[chatID] ELSE << >>
        app == Append(cur, StoredMessage(messageID, event, data, t))
        trimmed == IF Len(app) > MaxMessagesPerChat THEN Tail(app) ELSE app
    IN MapPut(msgs, chatID, trimmed)

\* StoreMessage's last statement: time.Since(lastCleanup) > 5 minutes.
CleanupDue(t, lc) == t - lc > CleanupInterval

\* GetRecentMessages testing !Timestamp.Before(since).
GetRecentMessages_AtOrAfter(msgs, chatID, since) ==
    IF chatID \notin DOMAIN msgs
    THEN << >>
    ELSE SelectSeq(msgs[chatID], LAMBDA m : m.Timestamp >= since)

\* GetRecentMessages: the entries with Timestamp.After(since), in list order.
GetRecentMessages(msgs, chatID, since) ==
    IF chatID \notin DOMAIN msgs
    THEN << >>
    ELSE SelectSeq(msgs[chatID], LAMBDA m : m.Timestamp > since)

\* cleanup: keep the entries with Timestamp.After(now - maxMessageAge),
\* delete the chats for which none is left.
CleanupKeep(msgs, chatID, t) ==
    SelectSeq(msgs[chatID], LAMBDA m : m.Timestamp > t - MaxMessageAge)

\* cleanup keeping the entries stored exactly maxMessageAge ago.
cleanup_KeepsBoundary(msgs, t) ==
    [ch \in {x \in DOMAIN msgs :
                SelectSeq(msgs[x], LAMBDA m : m.Timestamp >= t - MaxMessageAge) # << >>}
        |-> SelectSeq(msgs[ch], LAMBDA m : m.Timestamp >= t - MaxMessageAge)]

cleanup(msgs, t) ==
    [ch \in {x \in DOMAIN msgs : CleanupKeep(msgs, x, t) # << >>}
        |-> CleanupKeep(msgs, ch, t)]

\* ------------------------------------------------------------------------
\* Client (modelled from its description)
\* ------------------------------------------------------------------------
\* Send that does not look at the closed flag.
SendOk_IgnoresClosed(c) == qlen[c] < QueueCap

\* Send places the payload on the outbound queue; it fails when the
\* connection is closed or the queue stays full for the send timeout.
SendOk(c) == ~closed[c] /\ qlen[c] < QueueCap

LiveItem(m) == [via |-> "send", kind |-> "", data |-> m.Data, n |-> m.n]

\* sendEvent writes one event to the stream.
EventItem(kind, data, n) == [via |-> "replay", kind |-> kind, data |-> data, n |-> n]

\* Close asking the broker to unregister at every call.
CloseSet_NotIdempotent(S) ==
    /\ closed' = [c \in Conns |-> closed[c] \/ c \in S]
    /\ unregReq' = unregReq \cup S

\* Close: sets the closed flag once and asks the broker to unregister.
CloseSet(S) ==
    /\ closed' = [c \in Conns |-> closed[c] \/ c \in S]
    /\ unregReq' = unregReq \cup {c \in S : ~closed[c]}

\* ------------------------------------------------------------------------
\* Broker
\* ------------------------------------------------------------------------
Message(n, id, chatID, event, data, target) ==
    [n |-> n, ID |-> id, ChatID |-> chatID, Event |-> event, Data |-> data,
     Target |-> target, Attempts |-> 0]

Payload(n) == <<"d", n>>

\* json.Marshal of a json.RawMessage that json.Marshal produced: the same bytes.
MarshalRaw(data) == data

\* replayMessages without the len(messages) > 0 test.
replayMessages_NoGuard(msgs, chatID, since) ==
    LET recent == GetRecentMessages(msgs, chatID, since)
    IN <<EventItem("control", <<"replay_start", Len(recent)>>, 0)>>
       \o [i \in 1..Len(recent) |->
              EventItem(recent[i].Event, recent[i].Data, recent[i].ID)]
       \o <<EventItem("control", <<"replay_end", 0>>, 0)>>

\* replayMessages: what it writes to the client.
replayMessages(msgs, chatID, since) ==
    LET recent == GetRecentMessages(msgs, chatID, since)
    IN IF Len(recent) > 0
       THEN <<EventItem("control", <<"replay_start", Len(recent)>>, 0)>>
            \o [i \in 1..Len(recent) |->
                   EventItem(recent[i].Event, recent[i].Data, recent[i].ID)]
            \o <<EventItem("control", <<"replay_end", 0>>, 0)>>
       ELSE << >>

\* registerClient without the return after client.Close().
registerClient_NoReturn(c) ==
    LET chatID == getChatIDFromClientID(ConnID(c))
        full == Cardinality(DOMAIN Clients) >= MaxClients
    IN /\ IF full
          THEN CloseSet({c}) /\ rejected' = rejected \cup {c}
          ELSE UNCHANGED <<closed, unregReq, rejected>>
       /\ Clients' = MapPut(Clients, ConnID(c), c)
       /\ rcvd' = [rcvd EXCEPT ![c] =
                     IF chatID # EmptyStr
                     THEN @ \o replayMessages(messages, chatID, now - ReplayWindow)
                     ELSE @]

\* registerClient testing len(b.Clients) > b.MaxClients.
registerClient_OffByOne(c) ==
    IF Cardinality(DOMAIN Clients) > MaxClients
    THEN /\ CloseSet({c})
         /\ rejected' = rejected \cup {c}
         /\ UNCHANGED <<Clients, rcvd>>
    ELSE LET chatID == getChatIDFromClientID(ConnID(c))
         IN /\ Clients' = MapPut(Clients, ConnID(c), c)
            /\ rcvd' = [rcvd EXCEPT ![c] =
                          IF chatID # EmptyStr
                          THEN @ \o replayMessages(messages, chatID, now - ReplayWindow)
                          ELSE @]
            /\ UNCHANGED <<closed, unregReq, rejected>>

registerClient(c) ==
    IF Cardinality(DOMAIN Clients) >= MaxClients
    THEN /\ CloseSet({c})
         /\ rejected' = rejected \cup {c}
         /\ UNCHANGED <<Clients, rcvd>>
    ELSE LET chatID == getChatIDFromClientID(ConnID(c))
         IN /\ Clients' = MapPut(Clients, ConnID(c), c)
            /\ rcvd' = [rcvd EXCEPT ![c] =
                          IF chatID # EmptyStr
                          THEN @ \o replayMessages(messages, chatID, now - ReplayWindow)
                          ELSE @]
            /\ UNCHANGED <<closed, unregReq, rejected>>

unregisterClient(c) ==
    IF ConnID(c) \notin DOMAIN Clients
    THEN UNCHANGED Clients
    ELSE Clients' = MapDel(Clients, ConnID(c))

\* deliverMessage handing an event of a chat to every registered connection.
Receivers_ChatToAll(m) ==
    IF m.Target # EmptyStr
    THEN IF m.Target \in DOMAIN Clients THEN {Clients[m.Target]} ELSE {}
    ELSE Range(Clients)

\* Fan-out over every connection that exists instead of the registry.
Receivers_NotOnlyRegistered(m) ==
    IF m.Target # EmptyStr
    THEN {c \in Conns : ConnID(c) = m.Target}
    ELSE IF m.ChatID # EmptyStr
    THEN {c \in Conns : getChatIDFromClientID(ConnID(c)) = m.ChatID}
    ELSE Conns

\* deliverMessage: the connections it calls Send on.
Receivers(m) ==
    IF m.Target # EmptyStr
    THEN IF m.Target \in DOMAIN Clients THEN {Clients[m.Target]} ELSE {}
    ELSE IF m.ChatID # EmptyStr
    THEN {Clients[id] : id \in {x \in DOMAIN Clients :
                                   getChatIDFromClientID(x) = m.ChatID}}
    ELSE Range(Clients)

\* deliverMessage leaving the loop at the first failed Send; the failing
\* connection comes first in the iteration.
deliverMessage_AbortOnFailure(m) ==
    LET R == Receivers(m)
        ok == IF \E c \in R : ~SendOk(c) THEN {} ELSE R
    IN /\ rcvd' = [c \in Conns |->
                     IF c \in ok THEN Append(rcvd[c], LiveItem(m)) ELSE rcvd[c]]
       /\ qlen' = [c \in Conns |-> IF c \in ok THEN qlen[c] + 1 ELSE qlen[c]]
       /\ retrying' =
            IF m.Target # EmptyStr /\ R \ ok # {} /\ m.Attempts < MaxRetryAttempts
            THEN retrying \cup {[m EXCEPT !.Attempts = @ + 1]}
            ELSE retrying

\* deliverMessage testing message.Attempts <= b.MaxRetryAttempts.
deliverMessage_RetryAtMax(m) ==
    LET R == Receivers(m)
        ok == {c \in R : SendOk(c)}
    IN /\ rcvd' = [c \in Conns |->
                     IF c \in ok THEN Append(rcvd[c], LiveItem(m)) ELSE rcvd[c]]
       /\ qlen' = [c \in Conns |-> IF c \in ok THEN qlen[c] + 1 ELSE qlen[c]]
       /\ retrying' =
            IF m.Target # EmptyStr /\ R \ ok # {} /\ m.Attempts <= MaxRetryAttempts
            THEN retrying \cup {[m EXCEPT !.Attempts = @ + 1]}
            ELSE retrying

deliverMessage(m) ==
    LET R == Receivers(m)
        ok == {c \in R : SendOk(c)}
    IN /\ rcvd' = [c \in Conns |->
                     IF c \in ok THEN Append(rcvd[c], LiveItem(m)) ELSE rcvd[c]]
       /\ qlen' = [c \in Conns |-> IF c \in ok THEN qlen[c] + 1 ELSE qlen[c]]
       /\ retrying' =
            IF m.Target # EmptyStr /\ R \ ok # {} /\ m.Attempts < MaxRetryAttempts
            THEN retrying \cup {[m EXCEPT !.Attempts = @ + 1]}
            ELSE retrying

processMessage(m) ==
    LET chatID == IF m.ChatID = EmptyStr /\ m.Target # EmptyStr
                  THEN getChatIDFromClientID(m.Target)
                  ELSE m.ChatID
        stores == chatID # EmptyStr /\ m.ID # 0
    IN /\ IF stores
          THEN /\ messages' = StoreMessage(messages, chatID, m.ID, m.Event,
                                           MarshalRaw(m.Data), now)
               /\ stored' = [stored EXCEPT ![chatID] =
                               Append(@, StoredMessage(m.ID, m.Event,
                                                       MarshalRaw(m.Data), now))]
               /\ cleanups' = IF CleanupDue(now, lastCleanup)
                              THEN cleanups + 1 ELSE cleanups
               /\ published' = IF m.Attempts = 0
                               THEN Append(published,
                                           [chat |-> chatID, ID |-> m.ID,
                                            Event |-> m.Event, Data |-> m.Data,
                                            Target |-> m.Target, at |-> now])
                               ELSE published
          ELSE UNCHANGED <<messages, stored, cleanups, published>>
       /\ deliverMessage(m)

\* closeAllClients without b.Clients = make(map[string]*Client).
closeAllClients_KeepsRegistry ==
    /\ CloseSet(Range(Clients))
    /\ Clients' = Clients

closeAllClients ==
    /\ CloseSet(Range(Clients))
    /\ Clients' = [id \in {} |-> "c1"]

\* GetClientCount: len(b.Clients).
GetClientCount == Cardinality(DOMAIN Clients)

\* GetClientsInChat counting every registered connection.
GetClientsInChat_All(chatID) == Cardinality(DOMAIN Clients)

\* GetClientsInChat: the registered ids whose chat part is chatID.
GetClientsInChat(chatID) ==
    Cardinality({id \in DOMAIN Clients : getChatIDFromClientID(id) = chatID})

\* ------------------------------------------------------------------------
\* Steps of the stream handler and of the connection
\* ------------------------------------------------------------------------
\* Close removing the connection from the registry itself instead of
\* asking the loop.
Cancel_DeletesItself(c) ==
    /\ phase[c] = "active"
    /\ phase' = [phase EXCEPT ![c] = "done"]
    /\ closed' = [closed EXCEPT ![c] = TRUE]
    /\ unregisterClient(c)
    /\ UNCHANGED <<now, Broadcast, retrying, loopRunning, unregReq, qlen, rcvd,
                   storeVars, ghostVars>>

\* The request context of a connection handed to the loop is done: Close,
\* whether or not the broker has closed the connection before.
Cancel(c) ==
    /\ phase[c] = "active"
    /\ phase' = [phase EXCEPT ![c] = "done"]
    /\ CloseSet({c})
    /\ UNCHANGED <<now, brokerVars, qlen, rcvd, storeVars, ghostVars>>

\* The write loop takes one payload from the outbound queue and writes it.
Drain(c) ==
    /\ phase[c] = "active"
    /\ ~closed[c]
    /\ qlen[c] > 0
    /\ qlen' = [qlen EXCEPT ![c] = @ - 1]
    /\ UNCHANGED <<now, brokerVars, phase, closed, unregReq, rcvd, storeVars, ghostVars>>

\* ------------------------------------------------------------------------
\* Steps of the control loop (Broker.Start)
\* ------------------------------------------------------------------------
\* case client := <-b.Register.  Register is unbuffered: HandleStream's
\* NewClient and Listen hand the new connection over in this very step.
LoopRegister(c) ==
    /\ loopRunning
    /\ phase[c] = "new"
    /\ phase' = [phase EXCEPT ![c] = "active"]
    /\ registerClient(c)
    /\ UNCHANGED <<now, Broadcast, retrying, loopRunning, qlen, storeVars,
                   nextN, published, stored, swept, lastErr, lastStats>>

LoopUnregister(c) ==
    /\ loopRunning
    /\ c \in unregReq
    /\ unregReq' = unregReq \ {c}
    /\ unregisterClient(c)
    /\ UNCHANGED <<now, Broadcast, retrying, loopRunning, phase, closed, qlen,
                   rcvd, storeVars, ghostVars>>

LoopBroadcast ==
    /\ loopRunning
    /\ Broadcast # << >>
    /\ LET m == Head(Broadcast)
       IN /\ Broadcast' = Tail(Broadcast)
          /\ processMessage(m)
    /\ UNCHANGED <<now, Clients, loopRunning, phase, closed, unregReq,
                   lastCleanup, nextN, swept, rejected, lastErr, lastStats>>

LoopShutdown ==
    /\ loopRunning
    /\ loopRunning' = FALSE
    /\ closeAllClients
    /\ UNCHANGED <<now, Broadcast, retrying, phase, qlen, rcvd, storeVars, ghostVars>>

\* ------------------------------------------------------------------------
\* Producers and the goroutines the broker and the store start
\* ------------------------------------------------------------------------
\* The values a producer passes as data: one that json.Marshal accepts and
\* one that it refuses (a Go channel).
Datas == {"value", "chan"}

\* json.Marshal(data) returns an error.
MarshalErr(data) == data = "chan"

\* if err != nil { return err }: the call returns the error and does
\* nothing else.
ReturnErr ==
    /\ lastErr' = "error"
    /\ UNCHANGED <<now, brokerVars, clientVars, storeVars, nextN, published,
                   stored, swept, rejected, lastStats>>

\* b.Broadcast <- message; return nil.  The send waits for room on Broadcast.
Publish(m) ==
    /\ nextN <= MaxMsgs
    /\ Len(Broadcast) < BroadcastCap
    /\ Broadcast' = Append(Broadcast, m)
    /\ nextN' = nextN + 1
    /\ lastErr' = "nil"
    /\ UNCHANGED <<now, Clients, retrying, loopRunning, clientVars, storeVars,
                   published, stored, swept, rejected, lastStats>>

SendToClient(clientID, event, data) ==
    IF MarshalErr(data)
    THEN ReturnErr
    ELSE Publish([Message(nextN, nextN, EmptyStr, event, Payload(nextN), clientID)
                     EXCEPT !.ChatID = getChatIDFromClientID(clientID)])

\* SendToChat going on to the send on Broadcast after a failed json.Marshal.
SendToChat_IgnoresMarshalErr(chatID, event, data) ==
    /\ nextN <= MaxMsgs
    /\ Len(Broadcast) < BroadcastCap
    /\ Broadcast' = Append(Broadcast, Message(nextN, nextN, chatID, event,
                                              Payload(nextN), EmptyStr))
    /\ nextN' = nextN + 1
    /\ lastErr' = IF MarshalErr(data) THEN "error" ELSE "nil"
    /\ UNCHANGED <<now, Clients, retrying, loopRunning, clientVars, storeVars,
                   published, stored, swept, rejected, lastStats>>

SendToChat(chatID, event, data) ==
    IF MarshalErr(data)
    THEN ReturnErr
    ELSE Publish(Message(nextN, nextN, chatID, event, Payload(nextN), EmptyStr))

BroadcastToAll(event, data) ==
    IF MarshalErr(data)
    THEN ReturnErr
    ELSE Publish(Message(nextN, 0, EmptyStr, event, Payload(nextN), EmptyStr))

\* retryMessage after its sleep: Broadcast <- message.
retryMessage(m) ==
    /\ m \in retrying
    /\ Len(Broadcast) < BroadcastCap
    /\ Broadcast' = Append(Broadcast, m)
    /\ retrying' = retrying \ {m}
    /\ UNCHANGED <<now, Clients, loopRunning, clientVars, storeVars, ghostVars>>

\* SSEHandler.GetStats: GET /sse/stats?chat_id=...; the count of the chat
\* when chat_id is given, the total otherwise.
GetStats(chatID) ==
    /\ lastStats' = IF chatID # EmptyStr
                    THEN [chat_id |-> chatID, clients |-> GetClientsInChat(chatID)]
                    ELSE [total_clients |-> GetClientCount]
    /\ UNCHANGED <<now, brokerVars, clientVars, storeVars, nextN, published,
                   stored, swept, rejected, lastErr>>

\* A cleanup goroutine started by StoreMessage runs.
Cleanup ==
    /\ cleanups > 0
    /\ cleanups' = cleanups - 1
    /\ lastCleanup' = now
    /\ messages' = cleanup(messages, now)
    /\ swept' = swept \cup {ch \in DOMAIN messages :
                              CleanupKeep(messages, ch, now) # messages[ch]}
    /\ UNCHANGED <<now, brokerVars, clientVars, nextN, published, stored,
                   rejected, lastErr, lastStats>>

Tick ==
    /\ now < MaxTime
    /\ now' = now + 1
    /\ UNCHANGED <<brokerVars, clientVars, storeVars, ghostVars>>

Next ==
    \/ \E c \in Conns : Cancel(c)
    \/ \E c \in Conns : Drain(c)
    \/ \E c \in Conns : LoopRegister(c)
    \/ \E c \in Conns : LoopUnregister(c)
    \/ LoopBroadcast
    \/ LoopShutdown
    \/ \E id \in ClientIDs, d \in Datas : SendToClient(id, "complete", d)
    \/ \E ch \in Topics, d \in Datas : SendToChat(ch, "message", d)
    \/ \E d \in Datas : BroadcastToAll("ping", d)
    \/ \E m \in retrying : retryMessage(m)
    \/ \E ch \in Topics \cup {EmptyStr} : GetStats(ch)
    \/ Cleanup
    \/ Tick

Spec == Init /\ [][Next]_vars

\* ------------------------------------------------------------------------
\* Scenarios.  Each is the system above with part of its environment held
\* still, so that the part under study can be explored in depth.
\* ------------------------------------------------------------------------
\* Delivery: two connections with different ids on chat a, of which c3 may
\* leave, no shutdown, the clock does not advance.
NextDelivery ==
    \/ \E c \in {"c1", "c3"} : LoopRegister(c)
    \/ \E c \in {"c1", "c3"} : Drain(c)
    \/ Cancel("c3")
    \/ LoopUnregister("c3")
    \/ LoopBroadcast
    \/ SendToClient(ConnID("c1"), "complete", "value")
    \/ SendToChat(ChatA, "message", "value")
    \/ \E m \in retrying : retryMessage(m)

SpecDelivery == Init /\ [][NextDelivery]_vars

\* Registry: the four connections c1..c4 come and go, the broker may shut down,
\* chat a is published to; the write loops of the connections are stalled.
NextRegistry ==
    \/ \E c \in HttpConns : LoopRegister(c)
    \/ \E c \in HttpConns : Cancel(c)
    \/ \E c \in HttpConns : LoopUnregister(c)
    \/ LoopBroadcast
    \/ LoopShutdown
    \/ SendToChat(ChatA, "message", "value")

SpecRegistry == Init /\ [][NextRegistry]_vars

\* Replay: connections register while the history of the chats fills and
\* ages.
NextReplay ==
    \/ \E c \in {"c1", "c3"} : LoopRegister(c)
    \/ \E c \in {"c1", "c3"} : Drain(c)
    \/ LoopBroadcast
    \/ \E ch \in Chats : SendToChat(ch, "message", "value")
    \/ BroadcastToAll("ping", "value")
    \/ Cleanup
    \/ Tick

SpecReplay == Init /\ [][NextReplay]_vars

\* The same with the scheduling the runtime gives: the control loop keeps
\* taking what is on Broadcast, a started cleanup goroutine runs, time passes.
\* Producers are free to stop publishing.
SpecReplayFair ==
    /\ SpecReplay
    /\ WF_vars(LoopBroadcast)
    /\ WF_vars(Cleanup)
    /\ WF_vars(Tick)

\* Fan-out: connections of two chats register; producers call the three
\* publish operations, with data that can and data that cannot be serialized.
NextFanout ==
    \/ \E c \in {"c1", "c3", "c4"} : LoopRegister(c)
    \/ \E c \in {"c1", "c3", "c4"} : Drain(c)
    \/ LoopBroadcast
    \/ \E d \in Datas : SendToClient(ConnID("c1"), "complete", d)
    \/ \E ch \in Chats, d \in Datas : SendToChat(ch, "message", d)
    \/ \E d \in Datas : BroadcastToAll("ping", d)
    \/ \E m \in retrying : retryMessage(m)

SpecFanout == Init /\ [][NextFanout]_vars

\* Reconnection: c1 is on chat a and may leave; c2 is the reconnection that
\* names the id of c1; events are sent to that id, with retries.
NextReconnect ==
    \/ \E c \in {"c1", "c2"} : LoopRegister(c)
    \/ Cancel("c1")
    \/ LoopUnregister("c1")
    \/ LoopBroadcast
    \/ SendToClient(ConnID("c1"), "complete", "value")
    \/ \E m \in retrying : retryMessage(m)

SpecReconnect == Init /\ [][NextReconnect]_vars

\* Writers: every kind of party acts: the loop (register, unregister,
\* dispatch, shutdown), a producer, a retry goroutine, a stats reader, the
\* write loop of c3 and the cancellation of c1.
NextWriters ==
    \/ \E c \in {"c1", "c3"} : LoopRegister(c)
    \/ Cancel("c1")
    \/ LoopUnregister("c1")
    \/ Drain("c3")
    \/ LoopBroadcast
    \/ LoopShutdown
    \/ SendToClient(ConnID("c3"), "complete", "value")
    \/ \E m \in retrying : retryMessage(m)
    \/ GetStats(EmptyStr)

SpecWriters == Init /\ [][NextWriters]_vars

\* Topics: a connection of chat a and one of chat a_b register; both chats
\* are published to and their counts are read.
NextTopics ==
    \/ \E c \in {"c1", "c5"} : LoopRegister(c)
    \/ \E c \in {"c1", "c5"} : Drain(c)
    \/ LoopBroadcast
    \/ \E ch \in {ChatA, ChatAB} : SendToChat(ch, "message", "value")
    \/ \E ch \in {ChatA, ChatAB} : GetStats(ch)

SpecTopics == Init /\ [][NextTopics]_vars

\* Stats: connections of both chats come and go, the broker may shut down,
\* and the stats endpoint is read; nothing is published.
NextStats ==
    \/ \E c \in HttpConns : LoopRegister(c)
    \/ \E c \in HttpConns : Cancel(c)
    \/ \E c \in HttpConns : LoopUnregister(c)
    \/ LoopShutdown
    \/ \E ch \in Chats \cup {EmptyStr} : GetStats(ch)

SpecStats == Init /\ [][NextStats]_vars

\* ------------------------------------------------------------------------
\* Properties
\* ------------------------------------------------------------------------
Registered(c) == ConnID(c) \in DOMAIN Clients /\ Clients[ConnID(c)] = c
Admitted(c) == phase[c] # "new" /\ c \notin rejected
SendsOf(c) == SelectSeq(rcvd[c], LAMBDA it : it.via = "send")
LastN(q, k) == SubSeq(q, Len(q) - k + 1, Len(q))
HistoryOf(ch) == IF ch \in DOMAIN messages THEN messages[ch] ELSE << >>
ReplayStart(k) == EventItem("control", <<"replay_start", k>>, 0)
ReplayEnd == EventItem("control", <<"replay_end", 0>>, 0)

\* The loop takes a message from Broadcast in this step.
LoopTakes == loopRunning /\ Broadcast # << >> /\ Broadcast' = Tail(Broadcast)

\* The loop admits c in this step.
LoopAdmits(c) == phase[c] = "new" /\ phase'[c] = "active" /\ c \notin rejected'

\* C1: the events a connection is handed by Send arrive in publish order
\* (serials are given in the order of the sends on Broadcast, which is the
\* order in which the loop first takes them): no event is handed to a
\* connection after an event that was published later.
C1_PublishOrder ==
    \A c \in Conns :
        \A i, j \in 1..Len(SendsOf(c)) :
            i < j => SendsOf(c)[i].n < SendsOf(c)[j].n

\* C2: when the loop dispatches an event published to a chat, every
\* registered connection of that chat whose own queue has room is handed the
\* event, whatever the state of the queues of the other connections.
C2_SlowConnectionDoesNotBlock ==
    [][LoopTakes =>
        LET m == Head(Broadcast)
        IN (m.Target = EmptyStr /\ m.ChatID # EmptyStr) =>
             \A c \in Conns :
                (Registered(c) /\ ConnTopic(c) = m.ChatID /\ ~closed[c]
                    /\ qlen[c] < QueueCap)
                => rcvd'[c] = Append(rcvd[c], LiveItem(m))]_vars

\* A connection with a full queue missed an event that another connection of
\* the same chat was handed while both were registered.
C2_Witness ==
    \E c, d \in Conns :
        /\ c # d /\ Registered(c) /\ Registered(d)
        /\ ~closed[c] /\ qlen[c] = QueueCap
        /\ ConnTopic(c) = ConnTopic(d)
        /\ SendsOf(c) # << >> /\ SendsOf(d) # << >>
        /\ SendsOf(d)[Len(SendsOf(d))].n > SendsOf(c)[Len(SendsOf(c))].n

\* C3: a connection that was admitted and has not been closed is in the
\* registry, and only connections in the registry are handed a publish.
C3_RegistryInvariant ==
    /\ [](\A c \in Conns : (Admitted(c) /\ ~closed[c]) => Registered(c))
    /\ [][LoopTakes => \A c \in Conns : rcvd'[c] # rcvd[c] => Registered(c)]_vars

\* C4: a connection turned away at capacity is closed, is not in the
\* registry (and so in none of the counts) and has been sent nothing.
C4_RejectedStaysOut ==
    \A c \in rejected :
        /\ closed[c]
        /\ c \notin Range(Clients)
        /\ rcvd[c] = << >>
        /\ GetClientCount = Cardinality(Range(Clients) \ {c})

\* A connection was turned away and a later registration replayed history.
C4_Witness ==
    /\ rejected # {}
    /\ GetClientCount = MaxClients
    /\ \E d \in Conns : rcvd[d] # << >>

\* C5: the registry never holds more than MaxClients connections.
C5_RegistryBounded == GetClientCount <= MaxClients

\* The registry is full and a registration was refused.
C5_Witness == GetClientCount = MaxClients /\ rejected # {} /\ loopRunning

\* C6: everything the replay writes to a connection precedes every live
\* event it is handed.
C6_ReplayBeforeLive ==
    \A c \in Conns :
        \A i, j \in 1..Len(rcvd[c]) :
            (i < j /\ rcvd[c][j].via = "replay") => rcvd[c][i].via = "replay"

\* A connection got a replay and then a live event.
C6_Witness ==
    \E c \in Conns :
        /\ Len(rcvd[c]) >= 4
        /\ rcvd[c][1] = ReplayStart(Len(rcvd[c]) - 3)
        /\ rcvd[c][Len(rcvd[c]) - 1] = ReplayEnd
        /\ rcvd[c][Len(rcvd[c])].via = "send"

\* The events published to chat ch within the replay window ending at t.
PublishedWithin(ch, t) ==
    SelectSeq(published, LAMBDA e : e.chat = ch /\ e.at > t - ReplayWindow)

ExpectedReplay(ch, t) ==
    LET w == PublishedWithin(ch, t)
    IN <<ReplayStart(Len(w))>>
       \o [i \in 1..Len(w) |-> EventItem(w[i].Event, w[i].Data, w[i].ID)]
       \o <<ReplayEnd>>

\* C7: when k events, 1 <= k <= max-count, were published to a chat within
\* the window, a connection admitted to the chat is sent the start marker
\* with count k, the k events oldest first with their kind and payload, and
\* the end marker.
C7_ReplayExact ==
    [][\A c \in Conns :
          (LoopAdmits(c)
             /\ Len(PublishedWithin(ConnTopic(c), now)) \in 1..MaxMessagesPerChat)
          => rcvd'[c] = ExpectedReplay(ConnTopic(c), now)]_vars

\* C8: a connection admitted while its chat has no history entry within the
\* replay window is sent nothing by the registration.
C8_NoHistoryNoReplay ==
    [][\A c \in Conns :
          (LoopAdmits(c)
             /\ \A i \in 1..Len(HistoryOf(ConnTopic(c))) :
                   HistoryOf(ConnTopic(c))[i].Timestamp <= now - ReplayWindow)
          => rcvd'[c] = << >>]_vars

\* c1 is registered and has been sent nothing although its chat has history:
\* the history was there, and out of the window, when c1 was admitted
\* (an entry stored later would have been handed to c1).
C8_Witness ==
    /\ Registered("c1") /\ ~closed["c1"] /\ rcvd["c1"] = << >>
    /\ HistoryOf(ConnTopic("c1")) # << >>

\* C9: as long as no sweep removed entries of a chat, its history is the
\* last min(n, max-count) of the n entries stored for it, in storing order.
C9_KeepsLastN ==
    \A ch \in Chats \ swept :
        HistoryOf(ch) =
            LastN(stored[ch], IF Len(stored[ch]) < MaxMessagesPerChat
                              THEN Len(stored[ch]) ELSE MaxMessagesPerChat)

\* One entry more than max-count was stored for chat a and a connection
\* admitted afterwards was replayed the last max-count of them.
C9_Witness ==
    /\ ChatA \notin swept
    /\ Len(stored[ChatA]) = MaxMessagesPerChat + 1
    /\ \E c \in Conns :
          /\ Len(rcvd[c]) = MaxMessagesPerChat + 2
          /\ rcvd[c][1] = ReplayStart(MaxMessagesPerChat)
          /\ \A i \in 1..MaxMessagesPerChat :
                rcvd[c][i + 1] = EventItem(stored[ChatA][i + 1].Event,
                                           stored[ChatA][i + 1].Data,
                                           stored[ChatA][i + 1].ID)

\* C10 as stated: every chat holds at most max-count entries and no entry
\* older than the retention window.
C10_HistoryInvariant ==
    \A ch \in DOMAIN messages :
        /\ Len(messages[ch]) <= MaxMessagesPerChat
        /\ \A i \in 1..Len(messages[ch]) :
              now - messages[ch][i].Timestamp <= MaxMessageAge

\* C10 amended: every chat holds at most max-count entries at all times, and
\* right after a sweep no chat holds an entry as old as the retention window.
C10_BoundedAndSwept ==
    /\ [](\A ch \in DOMAIN messages : Len(messages[ch]) <= MaxMessagesPerChat)
    /\ [][cleanups' < cleanups =>
            \A ch \in DOMAIN messages' :
                \A i \in 1..Len(messages'[ch]) :
                    now' - messages'[ch][i].Timestamp < MaxMessageAge]_vars

\* A sweep has removed entries and the store still holds some.
C10_Witness == swept # {} /\ DOMAIN messages # {} /\ lastCleanup > 0

\* The instants a caller can pass as since.
Sinces == (0 - ReplayWindow)..MaxTime

\* The positions of the entries of h stored strictly after since.
NewerIdx(h, since) == {i \in 1..Len(h) : h[i].Timestamp > since}

\* C11: for every chat and every since, GetRecentMessages returns the stored
\* entries of the chat with a timestamp strictly after since, each once and
\* in storage order, nothing for a chat the store does not know; the
\* registration that calls it leaves the store as it was.
C11_RecentExact ==
    /\ [](\A ch \in Chats : \A since \in Sinces :
            LET h == HistoryOf(ch)
                I == NewerIdx(h, since)
                r == GetRecentMessages(messages, ch, since)
            IN /\ Len(r) = Cardinality(I)
               /\ \A i \in I : r[Cardinality({j \in I : j <= i})] = h[i]
               /\ (ch \notin DOMAIN messages => r = << >>))
    /\ [][(\E c \in Conns : LoopAdmits(c)) => messages' = messages]_vars

\* A chat holds an entry stored at or before the start of the window and a
\* later one, and a connection admitted to it was replayed the later one only.
C11_Witness ==
    \E c \in Conns :
        LET h == HistoryOf(ConnTopic(c))
        IN /\ Registered(c)
           /\ Len(h) = 2
           /\ h[1].Timestamp < h[2].Timestamp
           /\ rcvd[c] = <<ReplayStart(1),
                          EventItem(h[2].Event, h[2].Data, h[2].ID),
                          ReplayEnd>>

\* The store holds the entry of event n.
InStore(n) ==
    \E ch \in DOMAIN messages :
        \E i \in 1..Len(messages[ch]) : messages[ch][i].ID = n

\* The store holds the entry of event n and it is older than the retention
\* window.
Expired(n) ==
    \E ch \in DOMAIN messages :
        \E i \in 1..Len(messages[ch]) :
            /\ messages[ch][i].ID = n
            /\ now - messages[ch][i].Timestamp > MaxMessageAge

\* C12: an entry that has become older than the retention window is
\* eventually out of the store, and a sweep leaves no chat with an empty list.
C12_EventuallySwept ==
    /\ \A n \in 1..MaxMsgs : Expired(n) ~> ~InStore(n)
    /\ [][cleanups' < cleanups =>
            \A ch \in DOMAIN messages' : messages'[ch] # << >>]_vars

\* The connections the claim selects for event m.
ExpectedReceivers(m) ==
    IF m.Target # EmptyStr
    THEN {c \in Conns : Registered(c) /\ ConnID(c) = m.Target}
    ELSE IF m.ChatID # EmptyStr
    THEN {c \in Conns : Registered(c) /\ ConnTopic(c) = m.ChatID}
    ELSE {c \in Conns : Registered(c)}

\* C13: when the loop processes an event, the registered connection with
\* the target id, or else the registered connections of the event's chat, or
\* else all registered connections, get one Send of it each (which puts the
\* event on the queue when the connection is open and its queue has room),
\* and no other connection gets anything.
C13_Receivers ==
    [][LoopTakes =>
        LET m == Head(Broadcast)
        IN \A c \in Conns :
              IF c \in ExpectedReceivers(m) /\ ~closed[c] /\ qlen[c] < QueueCap
              THEN /\ rcvd'[c] = Append(rcvd[c], LiveItem(m))
                   /\ qlen'[c] = qlen[c] + 1
              ELSE /\ rcvd'[c] = rcvd[c]
                   /\ qlen'[c] = qlen[c]]_vars

\* c1 (chat a) and c4 (chat b) were registered when event 1, a broadcast to
\* all, was dispatched; c1 was then handed events 2 and 3, c4 neither.
C13_Witness ==
    /\ Registered("c1") /\ Registered("c4")
    /\ Len(SendsOf("c1")) = 3 /\ Len(SendsOf("c4")) = 1
    /\ SendsOf("c4")[1].n = 1
    /\ \A i \in 1..3 : SendsOf("c1")[i].n = i

\* C14: processing an event whose target is not in the registry, published
\* by SendToClient (which takes no chat), sends nothing, schedules no retry
\* and adds no entry to the history of any chat.
C14_UnregisteredTargetNoOp ==
    [][LoopTakes =>
        LET m == Head(Broadcast)
        IN (m.Target # EmptyStr /\ m.Target \notin DOMAIN Clients) =>
              /\ rcvd' = rcvd
              /\ retrying' = retrying
              /\ messages' = messages]_vars

\* The copies of event n on Broadcast or held by a retry goroutine.
InFlight(n) ==
    {<<"q", i>> : i \in {j \in 1..Len(Broadcast) : Broadcast[j].n = n}}
        \cup {<<"r", m>> : m \in {x \in retrying : x.n = n}}

\* How many times the loop has processed event n (every processing of an
\* event with a chat and an id stores it).
Processed(n) ==
    Len(SelectSeq(stored[ChatA], LAMBDA e : e.ID = n))
        + Len(SelectSeq(stored[ChatB], LAMBDA e : e.ID = n))

\* C15: an event is processed, and so sent to its connection, at most
\* MaxRetryAttempts + 1 times: there is at most one copy of it in flight, the
\* copy counts the processings so far, a copy is re-submitted only while that
\* count is below MaxRetryAttempts, and a failed event that has reached it
\* is dropped.
C15_BoundedAttempts ==
    /\ [](\A n \in 1..MaxMsgs :
            /\ Processed(n) <= MaxRetryAttempts + 1
            /\ Cardinality(InFlight(n)) <= 1
            /\ \A i \in 1..Len(Broadcast) :
                  Broadcast[i].n = n =>
                     /\ Broadcast[i].Attempts = Processed(n)
                     /\ Broadcast[i].Attempts <= MaxRetryAttempts
            /\ \A m \in retrying :
                  m.n = n => /\ m.Attempts = Processed(n)
                             /\ m.Attempts <= MaxRetryAttempts)
    /\ [][LoopTakes =>
            LET m == Head(Broadcast)
            IN /\ \A n \in 1..MaxMsgs :
                    (m.n = n /\ m.Attempts >= MaxRetryAttempts)
                    => InFlight(n)' = {}
               /\ retrying' \subseteq
                     retrying \cup {[m EXCEPT !.Attempts = @ + 1]}]_vars

\* An event targeted at c1 was processed MaxRetryAttempts + 1 times while
\* c1 was registered with a full queue, was not handed to c1 and is gone.
C15_Witness ==
    \E n \in 1..MaxMsgs :
        /\ Processed(n) = MaxRetryAttempts + 1
        /\ InFlight(n) = {}
        /\ Registered("c1") /\ qlen["c1"] = QueueCap
        /\ \A i \in 1..Len(rcvd["c1"]) : rcvd["c1"][i].n # n

\* C16: a producer's call can always return: whenever Broadcast is full, so
\* that the call waits in its send, the control loop, the only receiver of
\* Broadcast, is running and will make room.
C16_ProducerReturns == Len(Broadcast) = BroadcastCap => loopRunning

\* C17: the step in which the loop observes the shutdown signal closes every
\* registered connection, empties the registry and ends the loop without
\* touching the events still on Broadcast or with a retry goroutine; from
\* then on the counts are 0 and nothing is delivered.
C17_Shutdown ==
    /\ [][(loopRunning /\ ~loopRunning') =>
            /\ \A c \in Conns : Registered(c) => closed'[c]
            /\ DOMAIN Clients' = {}
            /\ Broadcast' = Broadcast /\ retrying' = retrying
            /\ rcvd' = rcvd]_vars
    /\ [](~loopRunning =>
            /\ GetClientCount = 0
            /\ \A ch \in Chats : GetClientsInChat(ch) = 0)
    /\ [][~loopRunning =>
            /\ ~loopRunning'
            /\ rcvd' = rcvd
            /\ Len(Broadcast') >= Len(Broadcast)]_vars

\* The loop has ended with MaxClients connections registered, all of them
\* closed by it and none by its own cancellation, and events are left on
\* Broadcast.
C17_Witness ==
    /\ ~loopRunning
    /\ Cardinality({c \in Conns : closed[c] /\ phase[c] = "active"
                                     /\ c \notin rejected}) = MaxClients
    /\ GetClientCount = 0
    /\ Broadcast # << >>

\* C18: when the loop serves the unregister request of a connection that is
\* not in the registry, the registry stays as it is.
C18_UnregisterIdempotent ==
    [][\A c \in Conns :
          (loopRunning /\ c \in unregReq /\ c \notin unregReq' /\ ~Registered(c))
          => Clients' = Clients]_vars

\* C19: a closed connection stays closed, and no step, a further Close
\* included, changes anything of it: nothing more is handed to it, its queue
\* is left alone and it makes no second unregister request.
C19_ClosedTerminal ==
    [][\A c \in Conns :
          closed[c] =>
             /\ closed'[c]
             /\ rcvd'[c] = rcvd[c]
             /\ qlen'[c] = qlen[c]
             /\ (c \in unregReq' => c \in unregReq)]_vars

\* A connection was closed by the broker, which turned it away at capacity,
\* and closed again by its own cancellation after the loop had served its
\* unregister request.
C19_Witness ==
    \E c \in rejected :
        /\ phase[c] = "done"
        /\ closed[c]
        /\ c \notin unregReq
        /\ loopRunning

\* C20: the step in which a publish call returns an error leaves the broker,
\* the store and the connections as they were: nothing is put on Broadcast,
\* nothing is stored, nothing is sent.
C20_MarshalErrorNoEffect ==
    [][(lastErr = "nil" /\ lastErr' = "error") =>
          /\ Broadcast' = Broadcast /\ retrying' = retrying
          /\ Clients' = Clients
          /\ messages' = messages /\ stored' = stored
          /\ rcvd' = rcvd /\ qlen' = qlen
          /\ nextN' = nextN]_vars

\* A publish call has just returned an error while a connection is
\* registered, an event waits on Broadcast and a chat has history.
C20_Witness ==
    /\ lastErr = "error"
    /\ Broadcast # << >>
    /\ DOMAIN messages # {}
    /\ \E c \in Conns : Registered(c) /\ ~closed[c]

\* The response GetStats gives for chat_id = ch in the current state, by the
\* registered connections and the chat each was created for.
ExpectedStats(ch) ==
    IF ch # EmptyStr
    THEN [chat_id |-> ch,
          clients |-> Cardinality({c \in Conns : Registered(c) /\ ConnTopic(c) = ch})]
    ELSE [total_clients |-> Cardinality({c \in Conns : Registered(c)})]

\* C21: GetClientCount is the number of connections in the registry,
\* GetClientsInChat(T) the number of registered connections created for chat
\* T, the counts of the chats add up to the total, and a stats request
\* answers with these numbers and changes neither the registry nor any
\* connection.
C21_StatsExact ==
    /\ [](/\ GetClientCount = Cardinality({c \in Conns : Registered(c)})
          /\ \A ch \in Chats :
                GetClientsInChat(ch) =
                    Cardinality({c \in Conns : Registered(c) /\ ConnTopic(c) = ch})
          /\ GetClientsInChat(ChatA) + GetClientsInChat(ChatB) = GetClientCount)
    /\ [][lastStats' # lastStats =>
            /\ \E ch \in Chats \cup {EmptyStr} : lastStats' = ExpectedStats(ch)
            /\ Clients' = Clients
            /\ phase' = phase /\ closed' = closed /\ unregReq' = unregReq
            /\ qlen' = qlen /\ rcvd' = rcvd]_vars

\* The stats of chat a were read as 1 while a connection of chat a and one
\* of chat b were registered.
C21_Witness ==
    /\ lastStats = [chat_id |-> ChatA, clients |-> 1]
    /\ GetClientCount = 2
    /\ \E c, d \in Conns :
          /\ Registered(c) /\ ConnTopic(c) = ChatA
          /\ Registered(d) /\ ConnTopic(d) = ChatB

\* C22: whenever the loop dispatches an event and the Send to one of the
\* connections selected for it fails (targeted, chat fan-out or broadcast to
\* all) while the event has made fewer than MaxRetryAttempts retries, a retry
\* of the event is scheduled; and a retried event is handed to no connection
\* that has been handed it before.
C22_RetryOnEveryFailure ==
    [][LoopTakes =>
        LET m == Head(Broadcast)
        IN /\ \A c \in ExpectedReceivers(m) :
                 (~SendOk(c) /\ m.Attempts < MaxRetryAttempts)
                 => \E r \in retrying' \ retrying :
                       r.n = m.n /\ r.Attempts = m.Attempts + 1
           /\ \A c \in Conns :
                 (m.Attempts > 0
                    /\ \E i \in 1..Len(rcvd[c]) :
                          rcvd[c][i].via = "send" /\ rcvd[c][i].n = m.n)
                 => rcvd'[c] = rcvd[c]]_vars

\* C23: an event published with a target is never written, live or by
\* replay, to a connection whose id is not the target.
C23_TargetedOnlyToTarget ==
    \A i \in 1..Len(published) :
        published[i].Target # EmptyStr =>
            \A c \in Conns :
                ConnID(c) # published[i].Target =>
                    \A j \in 1..Len(rcvd[c]) : rcvd[c][j].n # published[i].ID

\* C24: every event is sent to a connection at most once in total, by the
\* replay at its registration or live afterwards, never by both and never
\* twice by either.
C24_AtMostOnce ==
    \A c \in Conns :
        \A i, j \in 1..Len(rcvd[c]) :
            (i # j /\ rcvd[c][i].n # 0) => rcvd[c][i].n # rcvd[c][j].n

\* A step of the control loop: it is running and takes a connection from
\* Register, a request from Unregister, a message from Broadcast, or the
\* shutdown signal.
LoopStep ==
    /\ loopRunning
    /\ \/ \E c \in Conns : phase[c] = "new" /\ phase'[c] = "active"
       \/ \E c \in unregReq : c \notin unregReq'
       \/ Broadcast # << >> /\ Broadcast' = Tail(Broadcast)
       \/ ~loopRunning'

\* A step of a producer, a retry goroutine, a stats reader, a write loop or
\* a cancellation.
OtherStep ==
    \/ nextN' # nextN \/ lastErr' # lastErr
    \/ retrying' # retrying /\ Len(Broadcast') > Len(Broadcast)
    \/ lastStats' # lastStats
    \/ \E c \in Conns : qlen'[c] < qlen[c]
    \/ \E c \in Conns : phase[c] = "active" /\ phase'[c] = "done"

\* C25: the registry changes only in steps of the control loop (add at
\* Register, remove at Unregister, clear at shutdown); the steps of
\* producers, retry goroutines, stats readers, write loops and cancellations
\* leave it as it is and act on the broker only through Register,
\* Unregister and Broadcast.
C25_SingleWriter ==
    /\ [][Clients' # Clients => LoopStep]_vars
    /\ [][OtherStep => /\ Clients' = Clients
                       /\ loopRunning' = loopRunning
                       /\ messages' = messages]_vars

\* The registry held two connections when the stats were read, c1 has left
\* and was removed by the loop, an event was retried, and the loop has shut
\* down and cleared the registry.
C25_Witness ==
    /\ ~loopRunning
    /\ lastStats = [total_clients |-> 2]
    /\ phase["c1"] = "done" /\ "c1" \notin unregReq
    /\ closed["c3"] /\ rcvd["c3"] # << >>
    /\ \E i \in 1..Len(Broadcast) : Broadcast[i].Attempts > 0
    /\ DOMAIN Clients = {}

C29_StoredOnce ==
    \A ch \in DOMAIN messages :
        \A i, j \in 1..Len(messages[ch]) :
            i # j => messages[ch][i].ID # messages[ch][j].ID

\* C30: the step in which the loop serves the unregister request of a
\* connection removes no other connection from the registry: every other
\* connection registered before the step is registered after it.
C30_RemovesOnlyItself ==
    [][\A c \in Conns :
          (loopRunning /\ c \in unregReq /\ c \notin unregReq')
          => \A d \in Conns \ {c} : Registered(d) => Registered(d)']_vars

TypeOK ==
    /\ now \in 0..MaxTime
    /\ \A id \in DOMAIN Clients : Clients[id] \in Conns
    /\ Len(Broadcast) <= BroadcastCap
    /\ \A c \in Conns : qlen[c] \in 0..QueueCap

====
